---- MODULE Spec2Model ----
(***************************************************************************)
(* Model of the local-network deployment orchestrator of avalanche-cli     *)
(* (package subnet, LocalSubnetDeployer): DeployToLocalNetwork, StartServer,*)
(* doDeploy, WaitForHealthy and their helpers.  The Network Control Client *)
(* (gRPC client of the network runner), the file system and the HTTP       *)
(* endpoints are the environment: their answers are drawn from small sets. *)
(***************************************************************************)
EXTENDS Integers, Sequences, FiniteSets, TLC

VARIABLES
    pc,                 \* position of the deployment flow (DeployToLocalNetwork / doDeploy)
    chain,              \* doDeploy argument: chain (VM) name
    genesisFile,        \* state of the file named by the chainGenesis argument
    serverRunning,      \* environment: the gRPC server process is running
    backendStartedHere, \* LocalSubnetDeployer.backendStartedHere
    cli,                \* the gRPC client of this invocation: "none", "open", "closed"
    ctxDone,            \* the context of binutils.GetAsyncContext() is done (expired / cancelled)
    phase,              \* which WaitForHealthy call of doDeploy is running
    wpc,                \* position inside WaitForHealthy
    timer,              \* the time.After channel of the current select
    polls,              \* Health calls issued by the current WaitForHealthy call (saturating)
    lastResp,           \* resp, err of the loop body of WaitForHealthy: the answer of cli.Health
    wret,               \* the value returned by the last WaitForHealthy call
    networkBooted,      \* doDeploy local
    clusterInfo,        \* doDeploy local
    subnetIDStr,        \* doDeploy local
    net,                \* environment: the network held by the backend
    fs,                 \* environment: the snapshots directory and the binary directory
    httpGets,           \* HTTP GET requests issued by this invocation
    calls,              \* the calls issued through the client and the plugin downloader
    pluginReq,          \* the toInstallVMIDs argument of the downloader call
    sentSpecs,          \* the blockchainSpecs argument of the CreateBlockchains call
    deploys,            \* number of DeployToLocalNetwork invocations started
    ret,                \* what the invocation returned
    lastCall,           \* the last direct call of a provisioning function and its outcome
    cancel,             \* the cancel channels made by the WaitForHealthy calls of this invocation
    assigned,           \* the subnet slots handed to the deployments of a network, in order
    ask                 \* getChainID: the prompts, the existence checks and the result

vars == <<pc, chain, genesisFile, serverRunning, backendStartedHere, cli, ctxDone,
          phase, wpc, timer, polls, lastResp, wret, networkBooted, clusterInfo,
          subnetIDStr, net, fs, httpGets, calls, pluginReq, sentSpecs, deploys, ret,
          lastCall, cancel, assigned, ask>>

----------------------------------------------------------------------------
(* Bounds of the model *)

MaxPool == 2        \* longest subnet pool of the backend
MaxNodes == 2       \* nodes of the network
MaxPolls == 2       \* the poll counter saturates here
MaxDeploys == 2     \* DeployToLocalNetwork invocations per run
MaxPrompts == 3     \* the count of prompts of one getChainID call saturates here
MaxSeries == 3      \* DeployToLocalNetwork invocations of a series on one network

----------------------------------------------------------------------------
(* Strings.  Identifiers are strings of bytes, modelled as sequences of    *)
(* small integers; messages are sequences of words.                        *)

Min(a, b) == IF a < b THEN a ELSE b

RECURSIVE StrLess(_, _)
\* a < b in Go's string order (bytewise lexicographic, a proper prefix is smaller)
StrLess(a, b) ==
    IF b = <<>> THEN FALSE
    ELSE IF a = <<>> THEN TRUE
    ELSE IF Head(a) # Head(b) THEN Head(a) < Head(b)
    ELSE StrLess(Tail(a), Tail(b))

RECURSIVE Insert(_, _)
Insert(x, s) ==
    IF s = <<>> THEN <<x>>
    ELSE IF StrLess(x, Head(s)) THEN <<x>> \o s
    ELSE <<Head(s)>> \o Insert(x, Tail(s))

RECURSIVE SortStrings(_)
\* sort.Strings(subnetIDs): the sorted permutation (insertion sort)
SortStrings(s) ==
    IF s = <<>> THEN <<>> ELSE Insert(Head(s), SortStrings(Tail(s)))

\* strings.Contains on messages (word granularity)
Contains(s, sub) ==
    \E i \in 1..(Len(s) + 1) :
        /\ i + Len(sub) - 1 <= Len(s)
        /\ SubSeq(s, i, i + Len(sub) - 1) = sub

\* fmt.Errorf("<prefix> %s", err)
Wrap(prefix, err) == prefix \o err

NoErr == <<>>

ErrDeadline == <<"context", "deadline", "exceeded">>
ErrNotBootstrapped == <<"rpc", "error:", "not", "bootstrapped">>
ErrNotYet == <<"rpc", "error:", "not", "yet", "bootstrapped">>
ErrConnRefused == <<"rpc", "error:", "connection", "refused">>
ErrRPCDeadline == <<"rpc", "error:", "context", "deadline", "exceeded">>

----------------------------------------------------------------------------
(* Inputs and environment values *)

LongName == "a_vm_name_that_is_longer_than_32_bytes"

Chains == {"a", "b", LongName}

\* the states of the file named by chainGenesis.  "noconfig": the file is valid
\* JSON without a "config" member (or with "config": null), so that
\* json.Unmarshal leaves genesis.Config nil
GenesisFiles == {"missing", "staterr", "unreadable", "badjson", "noconfig", "ok"}

\* ids.ID values carry their text form; ids.Empty is the zero identifier
Empty == [id |-> <<>>]

\* ids.ID.String()
String(x) == x.id

\* the texts that decode to a 32-byte identifier: the identifier texts of the
\* model are one or two symbols long, any other text fails to decode
WellFormedID(str) == Len(str) \in 1..2

\* ids.FromString(str) as doDeploy uses it (lines 245, 249): the error is
\* discarded, and with an error the identifier is the zero value
FromString(str) == IF WellFormedID(str) THEN [id |-> str] ELSE Empty

\* utils.VMID(chain): the name padded to 32 bytes; names longer than that are refused
VMID(name) ==
    IF Len(name) > 32 THEN [ok |-> FALSE, id |-> Empty]
    ELSE [ok |-> TRUE, id |-> [id |-> <<"vm", name>>]]

\* a custom VM of the network that is none of the chains deployed here
ForeignVMs == {<<"vm", "x">>}
ChainVMs == {String(VMID(c).id) : c \in {x \in Chains : VMID(x).ok}}
VmIds == ChainVMs \cup ForeignVMs

\* rpcpb.CustomVmInfo of the blockchain running VM v
VmInfo(v) == [BlockchainId |-> <<"bc", v[2]>>, VmId |-> v]

\* what the backend lists for VM v after a CreateBlockchains call that returned
\* without error: the entry of the new blockchain, no entry at all, or an entry
\* whose BlockchainId text does not decode
CreatedEntries(v) ==
    {{VmInfo(v)}, {}, {[BlockchainId |-> <<"bc", v[2], "?">>, VmId |-> v]}}

\* subnet identifiers, as strings of bytes; in string order
\* <<1>> < <<1, 1>> < <<1, 2>> < <<2>>
SubnetNames == << <<2>>, <<1, 2>>, <<1>>, <<1, 1>> >>
SubnetIDs == {SubnetNames[i] : i \in 1..Min(MaxPool, Len(SubnetNames))}

\* the sequences of pairwise distinct subnet identifiers of length n
RECURSIVE PoolsOfLen(_)
PoolsOfLen(n) ==
    IF n = 0 THEN {<<>>}
    ELSE UNION {{Append(p, x) : x \in SubnetIDs \ {p[i] : i \in 1..(n - 1)}} :
                p \in PoolsOfLen(n - 1)}

Pools == UNION {PoolsOfLen(n) : n \in 0..MaxPool}

\* the number of node i as text
NodeTag(i) == <<"1", "2", "3", "4">>[i]

\* node descriptors of the network: rpcpb.NodeInfo of node i with the given Uri
NodeInfo(i, uri) == [Name |-> <<"node", NodeTag(i)>>, Uri |-> uri]

\* the Uri a node reports: its http address or, for the first node, the empty
\* string (one node without an address is enough for a line without "http" to
\* come first always, with one node, or in some iteration orders, with more)
NodeUris(i) == {<<"http", NodeTag(i)>>} \cup (IF i = 1 THEN {<<>>} ELSE {})

\* the values of ClusterInfo.NodeInfos, a Go map keyed by node name: the first n
\* nodes, each with one of its Uris
NodeMaps ==
    LET Descriptors(n) == UNION {{NodeInfo(i, x) : x \in NodeUris(i)} : i \in 1..n}
        Choices(n) == {f \in [1..n -> Descriptors(n)] :
                          \A i \in 1..n : f[i].Name = NodeInfo(i, <<>>).Name}
    IN  UNION {{{f[i] : i \in 1..n} : f \in Choices(n)} : n \in 0..MaxNodes}

\* the networks the backend can hold (booted) or restore from the default snapshot
Networks ==
    [booted : BOOLEAN, subnets : Pools, customVms : SUBSET {VmInfo(v) : v \in VmIds},
     nodes : NodeMaps]

NilInfo == [nil |-> TRUE]

\* the rpcpb.ClusterInfo the backend reports for network n with the given health flags
InfoOf(n, h, c) ==
    [nil |-> FALSE, Healthy |-> h, CustomVmsHealthy |-> c, Subnets |-> n.subnets,
     CustomVms |-> n.customVms, NodeInfos |-> n.nodes]

\* the answers cli.Health(ctx) can give: (resp, err)
HealthAnswers(n, done) ==
    LET errs == (IF n.booted THEN {} ELSE {ErrNotBootstrapped, ErrNotYet})
                \cup {ErrConnRefused}
                \cup (IF done THEN {ErrRPCDeadline} ELSE {})
        infos == IF n.booted
                 THEN {NilInfo} \cup {InfoOf(n, h, c) : h \in BOOLEAN, c \in BOOLEAN}
                 ELSE {}
    IN {[kind |-> "resp", err |-> e, ClusterInfo |-> NilInfo] : e \in errs}
       \cup {[kind |-> "resp", err |-> NoErr, ClusterInfo |-> i] : i \in infos}

----------------------------------------------------------------------------
(* Pure helpers of doDeploy *)

alreadyDeployedByChain(chainVMID, info) ==
    /\ ~info.nil
    /\ \E vmInfo \in info.CustomVms : vmInfo.BlockchainId = String(chainVMID)

\* alreadyDeployed(chainVMID, clusterInfo)
alreadyDeployed(chainVMID, info) ==
    /\ ~info.nil
    /\ \E vmInfo \in info.CustomVms : vmInfo.VmId = String(chainVMID)

toInstallVMIDsOnlyChain(chainVMID, info) == {String(chainVMID)}

\* installNeededPlugins: the toInstallVMIDs set handed to the downloader
toInstallVMIDs(chainVMID, info) ==
    {String(chainVMID)} \cup
    (IF info.nil THEN {} ELSE {vmInfo.VmId : vmInfo \in info.CustomVms})

IsNotBootstrappedLoose(err) == Contains(err, <<"bootstrapped">>)

\* strings.Contains(err.Error(), "not bootstrapped")
IsNotBootstrapped(err) == Contains(err, <<"not", "bootstrapped">>)

SelectSubnetUnsorted(subnetIDs, numBlockchains) ==
    subnetIDs[(numBlockchains % Len(subnetIDs)) + 1]

\* subnetIDs[numBlockchains%len(subnetIDs)] after sort.Strings(subnetIDs)
SelectSubnet(subnetIDs, numBlockchains) ==
    SortStrings(subnetIDs)[(numBlockchains % Len(subnetIDs)) + 1]

\* the orders in which a range statement can visit the entries of the map vms
RangeOrders(vms) ==
    {o \in [1..Cardinality(vms) -> vms] : {o[i] : i \in 1..Cardinality(vms)} = vms}

\* the iteration orders of one GetEndpoints call (Go fixes no order, and each
\* execution of a range statement can differ): nodes is the order in which the
\* outer range visits NodeInfos, vms[k] the order in which the inner range
\* visits CustomVms for the k-th node visited
MapOrders(info) ==
    [nodes : RangeOrders(info.NodeInfos),
     vms : [1..Cardinality(info.NodeInfos) -> RangeOrders(info.CustomVms)]]

\* fmt.Sprintf("Endpoint at node %s for blockchain %q with VM ID %q: %s/ext/bc/%s/rpc", ...):
\* the text of the line, as the sequence of its pieces.  The key of an entry of
\* CustomVms is the entry's BlockchainId
EndpointLine(nodeInfo, vmInfo) ==
    <<"Endpoint">> \o nodeInfo.Name \o vmInfo.BlockchainId \o vmInfo.VmId \o nodeInfo.Uri
    \o <<"/ext/bc/">> \o vmInfo.BlockchainId \o <<"/rpc">>

\* strings.LastIndex(s, substr): the 0-based index of the last occurrence, -1 if none
LastIndex(s, substr) ==
    LET hits == {i \in 1..Len(s) : s[i] = substr}
    IN  IF hits = {} THEN -1 ELSE (CHOOSE i \in hits : \A j \in hits : j <= i) - 1

\* firstURL[strings.LastIndex(firstURL, "http"):] of line 229: the slice
\* expression is in range when the index is not negative
SliceInRange(firstURL) == LastIndex(firstURL, "http") >= 0

\* the inner loop: endpoints = append(endpoints, ...) for each entry of CustomVms
RECURSIVE AppendVmLines(_, _, _)
AppendVmLines(endpoints, nodeInfo, order) ==
    IF order = <<>> THEN endpoints
    ELSE AppendVmLines(Append(endpoints, EndpointLine(nodeInfo, Head(order))), nodeInfo,
                       Tail(order))

RECURSIVE AppendNodeLinesFirstVm(_, _, _)
AppendNodeLinesFirstVm(endpoints, nodeInfos, orders) ==
    IF nodeInfos = <<>> THEN endpoints
    ELSE AppendNodeLinesFirstVm(
            AppendVmLines(endpoints, Head(nodeInfos),
                          SubSeq(Head(orders), 1, Min(1, Len(Head(orders))))),
            Tail(nodeInfos), Tail(orders))

\* the outer loop, over clusterInfo.NodeInfos in the order nodeInfos
RECURSIVE AppendNodeLines(_, _, _)
AppendNodeLines(endpoints, nodeInfos, orders) ==
    IF nodeInfos = <<>> THEN endpoints
    ELSE AppendNodeLines(AppendVmLines(endpoints, Head(nodeInfos), Head(orders)),
                         Tail(nodeInfos), Tail(orders))

GetEndpointsFirstVm(info, orders) == AppendNodeLinesFirstVm(<<>>, orders.nodes, orders.vms)

\* GetEndpoints(clusterInfo): the list of lines, one per (node, custom VM) pair
GetEndpoints(info, orders) == AppendNodeLines(<<>>, orders.nodes, orders.vms)

HealthDecisionOverall(resp) ==
    IF resp.err # NoErr THEN "error"
    ELSE IF resp.ClusterInfo.nil THEN "again"
    ELSE IF ~resp.ClusterInfo.Healthy THEN "again"
    ELSE "healthy"

HealthDecisionRetry(resp) ==
    IF resp.err # NoErr THEN "again"
    ELSE IF resp.ClusterInfo.nil THEN "again"
    ELSE IF ~resp.ClusterInfo.Healthy THEN "again"
    ELSE IF ~resp.ClusterInfo.CustomVmsHealthy THEN "again"
    ELSE "healthy"

HealthDecisionFirstAnswer(resp) ==
    IF resp.err # NoErr THEN "error"
    ELSE IF resp.ClusterInfo.nil THEN "again"
    ELSE "healthy"

\* the decision WaitForHealthy takes on one answer of cli.Health
HealthDecision(resp) ==
    IF resp.err # NoErr THEN "error"
    ELSE IF resp.ClusterInfo.nil THEN "again"
    ELSE IF ~resp.ClusterInfo.Healthy THEN "again"
    ELSE IF ~resp.ClusterInfo.CustomVmsHealthy THEN "again"
    ELSE "healthy"

----------------------------------------------------------------------------
(* State *)

Running == [status |-> "running", err |-> NoErr, subnetID |-> Empty, blockchainID |-> Empty]

\* return ids.Empty, ids.Empty, err
Failed(err) == [status |-> "returned", err |-> err, subnetID |-> Empty, blockchainID |-> Empty]

\* return subnetID, blockchainID, nil
Returned(s, b) == [status |-> "returned", err |-> NoErr, subnetID |-> s, blockchainID |-> b]

\* no answer of cli.Health is in scope
NoResp == [kind |-> "none", err |-> NoErr, ClusterInfo |-> NilInfo]
NoWait == [info |-> NilInfo, err |-> NoErr]

\* no provisioning function has been called directly
NoCall == [op |-> "none", force |-> FALSE, http |-> "none", err |-> NoErr,
           extracted |-> FALSE, gets |-> 0]

\* getChainID has not been called
NoAsk == [pc |-> "none", prompts |-> 0, entered |-> 0, perr |-> NoErr, checked |-> <<>>,
          exists |-> FALSE, cerr |-> NoErr, chainID |-> 0, err |-> NoErr]

\* the path of the genesis file of a chain, as the caller evaluates it
ChainGenesis(c) == <<"genesis", c>>


\* the disk: the bootstrap snapshot archive, the extracted default snapshot, the
\* versioned avalanchego directory found by the binary checker, its plugins
\* directory and its avalanchego binary
FreshDisk == [archive |-> "absent", snapshot |-> "absent", avago |-> "absent",
              plugins |-> FALSE, bin |-> FALSE]
ReadyDisk == [archive |-> "ok", snapshot |-> "ok", avago |-> "ok",
              plugins |-> TRUE, bin |-> TRUE]
InitialDisks ==
    {FreshDisk, ReadyDisk, [ReadyDisk EXCEPT !.plugins = FALSE], [ReadyDisk EXCEPT !.bin = FALSE],
     [FreshDisk EXCEPT !.archive = "ok"]}

\* what an HTTP GET of an archive can end in
HttpOutcomes == {"neterr", "non200", "readerr", "ok"}

\* the network restored from the default snapshot as shipped
ShippedNet == [booted |-> FALSE, subnets |-> SortStrings(CHOOSE p \in PoolsOfLen(Cardinality(SubnetIDs)) : TRUE),
               customVms |-> {}, nodes |-> {NodeInfo(i, <<"http", NodeTag(i)>>) : i \in 1..MaxNodes}]

\* the worlds a deployment can start in: <<network, disk, server is running>>.
\* A network runs only inside a running server, from an installed avalanchego
\* and snapshot; the default snapshot holds no custom VM
InitialWorlds ==
    {<<n, ReadyDisk, TRUE>> : n \in {m \in Networks : ~m.booted => m.customVms = {}}}
    \cup {<<ShippedNet, f, r>> : f \in InitialDisks, r \in BOOLEAN}

Init ==
    /\ pc = "idle"
    /\ chain = "a"
    /\ genesisFile = "ok"
    /\ \E w \in InitialWorlds : net = w[1] /\ fs = w[2] /\ serverRunning = w[3]
    /\ backendStartedHere = FALSE
    /\ cli = "none"
    /\ ctxDone = FALSE
    /\ phase = "none"
    /\ wpc = "none"
    /\ timer = "none"
    /\ polls = 0
    /\ lastResp = NoResp
    /\ wret = NoWait
    /\ networkBooted = TRUE
    /\ clusterInfo = NilInfo
    /\ subnetIDStr = <<>>
    /\ httpGets = 0
    /\ calls = <<>>
    /\ pluginReq = {}
    /\ sentSpecs = <<>>
    /\ deploys = 0
    /\ ret = Running
    /\ lastCall = NoCall
    /\ cancel = <<>>
    /\ assigned = <<>>
    /\ ask = NoAsk

\* the deferred cli.Close() of doDeploy
Closed(c) == IF c = "open" THEN "closed" ELSE c

\* a return statement of DeployToLocalNetwork / doDeploy
Return(r) ==
    /\ pc' = "done"
    /\ ret' = r
    /\ cli' = Closed(cli)

\* one call through the client or the downloader
Logged(op) == Append(calls, op)

\* the Health calls of one WaitForHealthy call are logged once (polls counts them)
LoggedPoll(op) == IF Len(calls) > 0 /\ calls[Len(calls)] = op THEN calls ELSE Append(calls, op)

HealthOp(p) ==
    CASE p = "probe" -> "Health:probe"
      [] p = "confirm" -> "Health:confirm"
      [] OTHER -> "Health:confirm2"

\* cancel := make(chan struct{}): nobody listens, never closed
MakeChan == [listeners |-> 0, closes |-> 0]

\* go ux.PrintWait(cancel): one more progress task listens on the channel
PrintWait(ch) == [ch EXCEPT !.listeners = @ + 1]

CloseNever(ch) == ch

\* defer close(cancel), run when WaitForHealthy returns
Close(ch) == [ch EXCEPT !.closes = @ + 1]

\* entry into d.WaitForHealthy(ctx, cli, d.healthCheckInterval)
StartWait(p) ==
    /\ pc' = "WaitForHealthy"
    /\ phase' = p
    /\ wpc' = "enter"
    /\ timer' = "none"
    /\ polls' = 0
    /\ cancel' = Append(cancel, PrintWait(MakeChan))

\* where doDeploy continues after the WaitForHealthy call of phase p
After(p) ==
    CASE p = "probe" -> "Probed"
      [] p = "confirm" -> "Confirmed"
      [] OTHER -> "Confirmed2"

\* return from WaitForHealthy
EndWait(info, err) ==
    /\ wret' = [info |-> info, err |-> err]
    /\ pc' = After(phase)
    /\ wpc' = "none"
    /\ timer' = "none"
    /\ cancel' = [cancel EXCEPT ![Len(cancel)] = Close(@)]

----------------------------------------------------------------------------
(* DeployToLocalNetwork and StartServer *)

\* StartServer: (error, serverRunning', backendStartedHere')
StartServer(queryFails, launchFails) ==
    IF queryFails
    THEN [err |-> <<"failed", "querying", "server", "process">>,
          running |-> serverRunning, startedHere |-> backendStartedHere]
    ELSE IF ~serverRunning
    THEN IF launchFails
         THEN [err |-> <<"failed", "starting", "gRPC", "server", "process">>,
               running |-> serverRunning, startedHere |-> backendStartedHere]
         ELSE [err |-> NoErr, running |-> TRUE, startedHere |-> TRUE]
    ELSE [err |-> NoErr, running |-> serverRunning, startedHere |-> backendStartedHere]

\* a call DeployToLocalNetwork(c, genesis path) with c among chains and the file
\* in one of the states files; at most max calls are followed
Invoke(chains, files, max) ==
    /\ pc \in {"idle", "done"}
    /\ deploys < max
    /\ \E c \in chains, g \in files, queryFails \in BOOLEAN,
          launchFails \in {b \in BOOLEAN : b => ~serverRunning} :
        LET s == StartServer(queryFails, launchFails) IN
        /\ chain' = c
        /\ genesisFile' = g
        /\ serverRunning' = s.running
        /\ backendStartedHere' = s.startedHere
        /\ IF s.err # NoErr
           THEN pc' = "done" /\ ret' = Failed(s.err)
           ELSE pc' = "SetupLocalEnv" /\ ret' = Running
    /\ deploys' = deploys + 1
    /\ cli' = "none"
    /\ ctxDone' = FALSE
    /\ phase' = "none"
    /\ wpc' = "none"
    /\ timer' = "none"
    /\ polls' = 0
    /\ lastResp' = NoResp
    /\ wret' = NoWait
    /\ networkBooted' = TRUE
    /\ clusterInfo' = NilInfo
    /\ subnetIDStr' = <<>>
    /\ httpGets' = 0
    /\ calls' = <<>>
    /\ pluginReq' = {}
    /\ sentSpecs' = <<>>
    /\ cancel' = <<>>
    /\ UNCHANGED <<net, fs, lastCall, assigned, ask>>

DeployToLocalNetwork == Invoke(Chains, GenesisFiles, MaxDeploys)

\* environment: between two invocations the gRPC server process ends (another
\* command stops it, or it crashes): IsServerProcessRunning answers false from
\* then on, and the network the server held is gone with it
ServerStops ==
    /\ pc \in {"idle", "done"}
    /\ serverRunning
    /\ serverRunning' = FALSE
    /\ net' = ShippedNet
    /\ UNCHANGED <<pc, chain, genesisFile, backendStartedHere, cli, ctxDone, phase, wpc,
                   timer, polls, lastResp, wret, networkBooted, clusterInfo, subnetIDStr, fs,
                   httpGets, calls, pluginReq, sentSpecs, deploys, ret, lastCall, cancel,
                   assigned, ask>>

----------------------------------------------------------------------------
(* SetupLocalEnv: SetDefaultSnapshot, setupLocalEnv and the directory checks *)

\* os.RemoveAll(defaultSnapshotPath) on a directory in state dir.  removed: how
\* far the removal gets ("all", or "some" / "none" when it fails; its error is
\* not looked at by the caller)
RemoveAll(dir, removed) ==
    IF dir = "absent" \/ removed = "all" THEN "absent"
    ELSE IF removed = "some" THEN "partial"
    ELSE dir

SetDefaultSnapshotReextract(f, force, env) ==
    LET download == f.archive = "absent"
        gets == IF download THEN 1 ELSE 0
        f1 == IF download /\ env.http = "ok"
              THEN [f EXCEPT !.archive = IF env.write THEN "ok" ELSE env.left]
              ELSE f
        f2 == [f1 EXCEPT !.snapshot = RemoveAll(f1.snapshot, env.removed)]
        f3 == [f2 EXCEPT !.snapshot = IF env.extract /\ f2.archive = "ok" THEN "ok" ELSE env.left]
    IN  IF download /\ env.http # "ok"
        THEN [err |-> <<"failed", "downloading", "bootstrap", "snapshot">>, fs |-> f,
              gets |-> gets, extracted |-> FALSE]
        ELSE IF download /\ ~env.write
        THEN [err |-> <<"failed", "writing", "down", "bootstrap", "snapshot">>, fs |-> f1,
              gets |-> gets, extracted |-> FALSE]
        ELSE IF f2.snapshot # "absent"
        THEN [err |-> NoErr, fs |-> f2, gets |-> gets, extracted |-> FALSE]
        ELSE IF ~env.read
        THEN [err |-> <<"failed", "reading", "bootstrap", "snapshot">>, fs |-> f2,
              gets |-> gets, extracted |-> FALSE]
        ELSE IF ~(env.extract /\ f2.archive = "ok")
        THEN [err |-> <<"failed", "installing", "bootstrap", "snapshot">>, fs |-> f3,
              gets |-> gets, extracted |-> TRUE]
        ELSE [err |-> NoErr, fs |-> f3, gets |-> gets, extracted |-> TRUE]

\* SetDefaultSnapshot(snapshotsDir, force) on disk f: (error, disk', GETs issued,
\* whether binutils.InstallArchive was called).
\* env: http, the answer of the GET; write, read, extract: whether os.WriteFile,
\* os.ReadFile and binutils.InstallArchive succeed; left: what a failed write or
\* extraction leaves behind ("absent" or "partial"); removed: see RemoveAll
SetDefaultSnapshot(f, force, env) ==
    LET download == f.archive = "absent"
        gets == IF download THEN 1 ELSE 0
        f1 == IF download /\ env.http = "ok"
              THEN [f EXCEPT !.archive = IF env.write THEN "ok" ELSE env.left]
              ELSE f
        f2 == IF force THEN [f1 EXCEPT !.snapshot = RemoveAll(f1.snapshot, env.removed)] ELSE f1
        f3 == [f2 EXCEPT !.snapshot = IF env.extract /\ f2.archive = "ok" THEN "ok" ELSE env.left]
    IN  IF download /\ env.http # "ok"
        THEN [err |-> <<"failed", "downloading", "bootstrap", "snapshot">>, fs |-> f,
              gets |-> gets, extracted |-> FALSE]
        ELSE IF download /\ ~env.write
        THEN [err |-> <<"failed", "writing", "down", "bootstrap", "snapshot">>, fs |-> f1,
              gets |-> gets, extracted |-> FALSE]
        ELSE IF f2.snapshot # "absent"
        THEN [err |-> NoErr, fs |-> f2, gets |-> gets, extracted |-> FALSE]
        ELSE IF ~env.read
        THEN [err |-> <<"failed", "reading", "bootstrap", "snapshot">>, fs |-> f2,
              gets |-> gets, extracted |-> FALSE]
        ELSE IF ~(env.extract /\ f2.archive = "ok")
        THEN [err |-> <<"failed", "installing", "bootstrap", "snapshot">>, fs |-> f3,
              gets |-> gets, extracted |-> TRUE]
        ELSE [err |-> NoErr, fs |-> f3, gets |-> gets, extracted |-> TRUE]

setupLocalEnvNoCheck(f, env) ==
    LET zip == env.goos \in {"darwin", "windows"}
        installed == [f EXCEPT !.avago = "ok", !.plugins = TRUE, !.bin = TRUE]
        broken == [f EXCEPT !.avago = env.left, !.plugins = FALSE, !.bin = FALSE]
    IN  IF env.check = "err"
        THEN [err |-> <<"failed", "trying", "to", "locate", "avalanchego", "binary">>,
              fs |-> f, gets |-> 0, extracted |-> FALSE]
        ELSE IF env.goos \notin {"linux", "darwin", "windows"}
        THEN [err |-> <<"OS", "not", "supported">>, fs |-> f, gets |-> 0, extracted |-> FALSE]
        ELSE IF env.http = "neterr"
        THEN [err |-> <<"http", "get", "failed">>, fs |-> f, gets |-> 1, extracted |-> FALSE]
        ELSE IF env.http = "non200"
        THEN [err |-> <<"unexpected", "http", "status", "code">>, fs |-> f, gets |-> 1,
              extracted |-> FALSE]
        ELSE IF env.http = "readerr"
        THEN [err |-> <<"read", "failed">>, fs |-> f, gets |-> 1, extracted |-> FALSE]
        ELSE IF ~env.extract
        THEN [err |-> <<"install", "archive", "failed">>,
              fs |-> IF zip THEN f ELSE broken, gets |-> 1, extracted |-> TRUE]
        ELSE IF zip /\ ~env.rename
        THEN [err |-> <<"rename", "failed">>, fs |-> f, gets |-> 1, extracted |-> TRUE]
        ELSE [err |-> NoErr, fs |-> installed, gets |-> 1, extracted |-> TRUE]

setupLocalEnvAnyStatus(f, env) ==
    LET zip == env.goos \in {"darwin", "windows"}
        installed == [f EXCEPT !.avago = "ok", !.plugins = TRUE, !.bin = TRUE]
        broken == [f EXCEPT !.avago = "partial", !.plugins = FALSE, !.bin = FALSE]
    IN  IF env.check = "err"
        THEN [err |-> <<"failed", "trying", "to", "locate", "avalanchego", "binary">>,
              fs |-> f, gets |-> 0, extracted |-> FALSE]
        ELSE IF f.avago # "absent"
        THEN [err |-> NoErr, fs |-> f, gets |-> 0, extracted |-> FALSE]
        ELSE IF env.goos \notin {"linux", "darwin", "windows"}
        THEN [err |-> <<"OS", "not", "supported">>, fs |-> f, gets |-> 0, extracted |-> FALSE]
        ELSE IF env.http = "neterr"
        THEN [err |-> <<"http", "get", "failed">>, fs |-> f, gets |-> 1, extracted |-> FALSE]
        ELSE IF env.http = "readerr"
        THEN [err |-> <<"read", "failed">>, fs |-> f, gets |-> 1, extracted |-> FALSE]
        ELSE IF ~env.extract \/ env.http = "non200"
        THEN [err |-> <<"install", "archive", "failed">>,
              fs |-> IF zip THEN f ELSE broken, gets |-> 1, extracted |-> TRUE]
        ELSE IF zip /\ ~env.rename
        THEN [err |-> <<"rename", "failed">>, fs |-> f, gets |-> 1, extracted |-> TRUE]
        ELSE [err |-> NoErr, fs |-> installed, gets |-> 1, extracted |-> TRUE]

\* setupLocalEnv on disk f: (error, disk', GETs issued, whether
\* binutils.InstallArchive was called).
\* env: check, the answer of binChecker.ExistsWithLatestVersion ("err" or "ok");
\* goos, runtime.GOOS; http; extract; rename, whether os.Rename succeeds; left
setupLocalEnv(f, env) ==
    LET zip == env.goos \in {"darwin", "windows"}
        installed == [f EXCEPT !.avago = "ok", !.plugins = TRUE, !.bin = TRUE]
        broken == [f EXCEPT !.avago = env.left, !.plugins = FALSE, !.bin = FALSE]
    IN  IF env.check = "err"
        THEN [err |-> <<"failed", "trying", "to", "locate", "avalanchego", "binary">>,
              fs |-> f, gets |-> 0, extracted |-> FALSE]
        ELSE IF f.avago # "absent"
        THEN [err |-> NoErr, fs |-> f, gets |-> 0, extracted |-> FALSE]
        ELSE IF env.goos \notin {"linux", "darwin", "windows"}
        THEN [err |-> <<"OS", "not", "supported">>, fs |-> f, gets |-> 0, extracted |-> FALSE]
        ELSE IF env.http = "neterr"
        THEN [err |-> <<"http", "get", "failed">>, fs |-> f, gets |-> 1, extracted |-> FALSE]
        ELSE IF env.http = "non200"
        THEN [err |-> <<"unexpected", "http", "status", "code">>, fs |-> f, gets |-> 1,
              extracted |-> FALSE]
        ELSE IF env.http = "readerr"
        THEN [err |-> <<"read", "failed">>, fs |-> f, gets |-> 1, extracted |-> FALSE]
        ELSE IF ~env.extract
        THEN [err |-> <<"install", "archive", "failed">>,
              fs |-> IF zip THEN f ELSE broken, gets |-> 1, extracted |-> TRUE]
        ELSE IF zip /\ ~env.rename
        THEN [err |-> <<"rename", "failed">>, fs |-> f, gets |-> 1, extracted |-> TRUE]
        ELSE [err |-> NoErr, fs |-> installed, gets |-> 1, extracted |-> TRUE]

\* SetupLocalEnv on disk f: (error, disk', GETs issued)
SetupLocalEnv(f, envSnap, envBin) ==
    LET s == SetDefaultSnapshot(f, FALSE, envSnap)
        b == setupLocalEnv(s.fs, envBin)
    IN  IF s.err # NoErr
        THEN [err |-> Wrap(<<"failed", "setting", "up", "snapshots:">>, s.err),
              fs |-> s.fs, gets |-> s.gets]
        ELSE IF b.err # NoErr
        THEN [err |-> Wrap(<<"failed", "setting", "up", "local", "environment:">>, b.err),
              fs |-> b.fs, gets |-> s.gets + b.gets]
        ELSE IF ~b.fs.plugins
        THEN [err |-> <<"evaluated", "pluginDir", "does", "not", "exist">>,
              fs |-> b.fs, gets |-> s.gets + b.gets]
        ELSE IF ~b.fs.bin
        THEN [err |-> <<"evaluated", "avalancheGoBinPath", "does", "not", "exist">>,
              fs |-> b.fs, gets |-> s.gets + b.gets]
        ELSE [err |-> NoErr, fs |-> b.fs, gets |-> s.gets + b.gets]

\* the environments of SetDefaultSnapshot with force = true, one per course it
\* can take (the first failure decides; what comes after a failure is not drawn)
ForceEnvs ==
    {e \in [http : HttpOutcomes, write : BOOLEAN, read : BOOLEAN, extract : BOOLEAN,
            left : {"absent", "partial"}, removed : {"all", "some", "none"}] :
        /\ e.http # "ok" => e.write /\ e.read /\ e.extract /\ e.removed = "all"
        /\ ~e.write => e.read /\ e.extract /\ e.removed = "all"
        /\ e.removed # "all" => e.read /\ e.extract
        /\ ~e.read => e.extract
        /\ e.write /\ e.extract => e.left = "absent"}

\* the environments of SetDefaultSnapshot with force = false (nothing is removed)
SnapEnvs == {e \in ForceEnvs : e.removed = "all"}

\* the environments of setupLocalEnv, one per course it can take
BinEnvs ==
    {e \in [check : {"err", "ok"}, goos : {"linux", "darwin", "windows", "plan9"},
            http : HttpOutcomes, extract : BOOLEAN, rename : BOOLEAN,
            left : {"absent", "partial"}] :
        /\ e.check = "err" => e.goos = "linux" /\ e.http = "ok" /\ e.extract /\ e.rename
        /\ e.goos = "plan9" => e.http = "ok" /\ e.extract /\ e.rename
        /\ e.http # "ok" => e.extract /\ e.rename
        /\ ~e.extract => e.rename
        /\ e.extract => e.left = "absent"}

\* doDeploy, lines 109-112
DoSetupLocalEnv ==
    /\ pc = "SetupLocalEnv"
    /\ \E envSnap \in SnapEnvs, envBin \in BinEnvs :
        LET r == SetupLocalEnv(fs, envSnap, envBin) IN
        /\ fs' = r.fs
        /\ httpGets' = httpGets + r.gets
        /\ IF r.err # NoErr
           THEN Return(Failed(r.err))
           ELSE pc' = "getClient" /\ UNCHANGED <<ret, cli>>
    /\ UNCHANGED <<chain, genesisFile, serverRunning, backendStartedHere, ctxDone, phase, wpc,
                   timer, polls, lastResp, wret, networkBooted, clusterInfo, subnetIDStr, net,
                   calls, pluginReq, sentSpecs, deploys, lastCall, cancel,
                   assigned, ask>>

\* doDeploy, lines 114-118: d.getClientFunc()
GetClient ==
    /\ pc = "getClient"
    /\ \E ok \in BOOLEAN :
        IF ok
        THEN pc' = "GenesisValidate" /\ cli' = "open" /\ UNCHANGED ret
        ELSE Return(Failed(<<"error", "creating", "gRPC", "Client">>))
    /\ UNCHANGED <<chain, genesisFile, serverRunning, backendStartedHere, ctxDone, phase, wpc,
                   timer, polls, lastResp, wret, networkBooted, clusterInfo, subnetIDStr, net,
                   fs, httpGets, calls, pluginReq, sentSpecs, deploys, lastCall, cancel,
                   assigned, ask>>

getGenesisUnchecked(file) ==
    IF file = "unreadable" THEN <<"read", "failed">> ELSE NoErr

\* genesis.Config after a getGenesis without error: nil when the file has no
\* "config" member
ConfigIsNil(file) == file = "noconfig"

\* getGenesis(genesisFile): whether os.ReadFile and json.Unmarshal succeed
getGenesis(file) ==
    IF file = "unreadable" THEN <<"read", "failed">>
    ELSE IF file = "badjson" THEN <<"invalid", "character">>
    ELSE NoErr

\* doDeploy, lines 120-136: storage.FileExists, getGenesis, genesis.Config.ChainID,
\* the async context
GenesisValidate ==
    /\ pc = "GenesisValidate"
    /\ IF genesisFile \in {"missing", "staterr"}
       THEN /\ Return(Failed(<<"evaluated", "chain", "genesis", "file", "does", "not", "exist">>))
            /\ UNCHANGED <<phase, wpc, timer, polls, cancel>>
       ELSE IF getGenesis(genesisFile) # NoErr
       THEN /\ Return(Failed(Wrap(<<"failed", "to", "unpack", "chain", "ID", "from", "genesis:">>,
                                  getGenesis(genesisFile))))
            /\ UNCHANGED <<phase, wpc, timer, polls, cancel>>
       ELSE IF ConfigIsNil(genesisFile)
       THEN \* line 132, genesis.Config.ChainID: nil pointer dereference, doDeploy
            \* panics; the deferred cli.Close() of line 118 runs while it unwinds
            /\ pc' = "panic"
            /\ cli' = Closed(cli)
            /\ UNCHANGED <<ret, phase, wpc, timer, polls, cancel>>
       ELSE /\ StartWait("probe")
            /\ UNCHANGED <<ret, cli>>
    /\ ctxDone' = FALSE
    /\ UNCHANGED <<chain, genesisFile, serverRunning, backendStartedHere, lastResp, wret,
                   networkBooted, clusterInfo, subnetIDStr, net, fs, httpGets, calls, pluginReq,
                   sentSpecs, deploys, lastCall, assigned, ask>>

----------------------------------------------------------------------------
(* WaitForHealthy(ctx, cli, healthCheckInterval), healthCheckInterval > 0 *)

\* the flow is where it observes the context: inside WaitForHealthy (a deadline
\* that passes elsewhere is seen at the next select)
CtxLive == pc = "WaitForHealthy"

\* environment: the deadline of the context passes
CtxExpire ==
    /\ CtxLive
    /\ ~ctxDone
    /\ ctxDone' = TRUE
    /\ UNCHANGED <<pc, chain, genesisFile, serverRunning, backendStartedHere, cli, phase, wpc,
                   timer, polls, lastResp, wret, networkBooted, clusterInfo, subnetIDStr, net,
                   fs, httpGets, calls, pluginReq, sentSpecs, deploys, ret, lastCall,
                   cancel, assigned, ask>>

\* environment: the time.After channel of the pending select becomes ready
TimerFire ==
    /\ pc = "WaitForHealthy"
    /\ wpc = "blocked"
    /\ timer = "pending"
    /\ timer' = "fired"
    /\ UNCHANGED <<pc, chain, genesisFile, serverRunning, backendStartedHere, cli, ctxDone,
                   phase, wpc, polls, lastResp, wret, networkBooted, clusterInfo, subnetIDStr,
                   net, fs, httpGets, calls, pluginReq, sentSpecs, deploys, ret, lastCall,
                   cancel, assigned, ask>>

WaitFrame ==
    UNCHANGED <<chain, genesisFile, serverRunning, backendStartedHere, cli, ctxDone, phase,
                networkBooted, clusterInfo, subnetIDStr, net, fs, httpGets, pluginReq,
                sentSpecs, deploys, ret, lastCall, assigned, ask>>

\* the select statement is reached: a done context is taken at once (the timer
\* just created is not ready), otherwise the goroutine blocks
SelectEnter ==
    /\ pc = "WaitForHealthy"
    /\ wpc = "enter"
    /\ IF ctxDone
       THEN EndWait(NilInfo, ErrDeadline)
       ELSE wpc' = "blocked" /\ timer' = "pending" /\ UNCHANGED <<pc, wret, cancel>>
    /\ lastResp' = NoResp
    /\ UNCHANGED <<polls, calls>>
    /\ WaitFrame

\* blocked select, case <-ctx.Done(): return nil, ctx.Err()
SelectCtxDone ==
    /\ pc = "WaitForHealthy"
    /\ wpc = "blocked"
    /\ ctxDone
    /\ EndWait(NilInfo, ErrDeadline)
    /\ UNCHANGED <<polls, lastResp, calls>>
    /\ WaitFrame

\* blocked select, case <-time.After(healthCheckInterval)
SelectTick ==
    /\ pc = "WaitForHealthy"
    /\ wpc = "blocked"
    /\ timer = "fired"
    /\ wpc' = "tick"
    /\ timer' = "none"
    /\ UNCHANGED <<pc, wret, polls, lastResp, calls, cancel>>
    /\ WaitFrame

\* lines 403-421: cli.Health(ctx) and the checks of its answer
HealthPoll ==
    /\ pc = "WaitForHealthy"
    /\ wpc = "tick"
    /\ \E resp \in HealthAnswers(net, ctxDone) :
        /\ lastResp' = resp
        /\ CASE HealthDecision(resp) = "error" ->
                    EndWait(NilInfo, Wrap(<<"the", "health", "check", "failed", "to", "complete.">>,
                                          resp.err))
             [] HealthDecision(resp) = "again" ->
                    wpc' = "enter" /\ UNCHANGED <<pc, wret, timer, cancel>>
             [] OTHER ->
                    EndWait(resp.ClusterInfo, NoErr)
    /\ polls' = Min(polls + 1, MaxPolls)
    /\ calls' = LoggedPoll(HealthOp(phase))
    /\ WaitFrame

----------------------------------------------------------------------------
(* doDeploy after the probe *)

DeployFrame ==
    UNCHANGED <<chain, genesisFile, serverRunning, backendStartedHere, ctxDone, fs, httpGets,
                deploys, lastCall, assigned, ask>>

\* the result of the WaitForHealthy call has been taken over by doDeploy
Taken ==
    /\ wret' = NoWait
    /\ lastResp' = NoResp
    /\ polls' = 0

Kept == UNCHANGED <<wret, lastResp>>

\* lines 139-159: the probe's answer, the VM identifier, the already-deployed check
ProbeResult ==
    /\ pc = "Probed"
    /\ IF wret.err # NoErr /\ ~IsNotBootstrapped(wret.err)
       THEN /\ Return(Failed(Wrap(<<"failed", "to", "query", "network", "health:">>, wret.err)))
            /\ clusterInfo' = wret.info
            /\ UNCHANGED networkBooted
       ELSE /\ networkBooted' = (wret.err = NoErr)
            /\ clusterInfo' = wret.info
            /\ IF ~VMID(chain).ok
               THEN Return(Failed(<<"failed", "to", "create", "VM", "ID">>))
               ELSE IF alreadyDeployed(VMID(chain).id, wret.info)
               THEN Return(Returned(Empty, Empty))
               ELSE pc' = "PluginInstall" /\ UNCHANGED <<ret, cli>>
    /\ Taken
    /\ UNCHANGED <<phase, wpc, timer, subnetIDStr, net, calls, pluginReq, sentSpecs, cancel>>
    /\ DeployFrame

ErrDownload == <<"plugin", "download", "failed">>
ErrLoadNodeConfig == <<"load", "node", "config", "failed">>

\* lines 161-165: installNeededPlugins
PluginInstall ==
    /\ pc = "PluginInstall"
    /\ pluginReq' = toInstallVMIDs(VMID(chain).id, clusterInfo)
    /\ calls' = Logged("Download")
    /\ \E ok \in BOOLEAN :
        IF ok
        THEN pc' = "NetworkBoot" /\ UNCHANGED <<ret, cli>>
        ELSE Return(Failed(ErrDownload))
    /\ Kept
    /\ UNCHANGED <<phase, wpc, timer, polls, networkBooted, clusterInfo, subnetIDStr, net,
                   sentSpecs, cancel>>
    /\ DeployFrame

\* startNetwork: which calls it issues and what it returns.
\* config: the answer of d.app.Conf.LoadNodeConfig() ("err", "empty" or "set");
\* loaded: whether cli.LoadSnapshot succeeds
startNetwork(config, loaded) ==
    IF config = "err"
    THEN [err |-> ErrLoadNodeConfig, issued |-> FALSE, booted |-> FALSE]
    ELSE IF ~loaded
    THEN [err |-> <<"failed", "to", "start", "network">>, issued |-> TRUE, booted |-> FALSE]
    ELSE [err |-> NoErr, issued |-> TRUE, booted |-> TRUE]

NeedsBootAlways(booted) == TRUE

\* whether doDeploy calls startNetwork (line 167)
NeedsBoot(booted) == ~booted

\* lines 167-173: the conditional boot, then the HealthConfirm poll
NetworkBoot ==
    /\ pc = "NetworkBoot"
    /\ IF NeedsBoot(networkBooted)
       THEN \E config \in {"err", "empty", "set"}, loaded \in BOOLEAN :
            LET r == startNetwork(config, loaded) IN
            /\ calls' = IF r.issued THEN Logged("LoadSnapshot") ELSE calls
            /\ net' = IF r.booted THEN [net EXCEPT !.booted = TRUE] ELSE net
            /\ IF r.err # NoErr
               THEN Return(Failed(r.err)) /\ UNCHANGED <<phase, wpc, timer, polls, cancel>>
               ELSE StartWait("confirm") /\ UNCHANGED <<ret, cli>>
       ELSE /\ StartWait("confirm")
            /\ UNCHANGED <<ret, cli, calls, net>>
    /\ Kept
    /\ UNCHANGED <<networkBooted, clusterInfo, subnetIDStr, pluginReq, sentSpecs>>
    /\ DeployFrame

ErrNoSubnets == <<"the", "network", "has", "not", "preloaded", "subnet", "IDs">>

slotSelectSilent(subnetIDs, numBlockchains) ==
    IF Len(subnetIDs) = 0
    THEN [err |-> NoErr, id |-> <<>>]
    ELSE [err |-> NoErr, id |-> SelectSubnet(subnetIDs, numBlockchains)]

slotSelectFirst(subnetIDs, numBlockchains) ==
    IF Len(subnetIDs) = 0
    THEN [err |-> ErrNoSubnets, id |-> <<>>]
    ELSE [err |-> NoErr, id |-> SelectSubnet(subnetIDs, 0)]

\* lines 185-189: the empty-pool check and the selection: (error, subnetIDStr)
slotSelect(subnetIDs, numBlockchains) ==
    IF Len(subnetIDs) = 0
    THEN [err |-> ErrNoSubnets, id |-> <<>>]
    ELSE [err |-> NoErr, id |-> SelectSubnet(subnetIDs, numBlockchains)]

\* lines 173-189: the HealthConfirm answer and the slot selection
SlotSelect ==
    /\ pc = "Confirmed"
    /\ IF wret.err # NoErr
       THEN /\ Return(Failed(Wrap(<<"failed", "to", "query", "network", "health:">>, wret.err)))
            /\ clusterInfo' = wret.info
            /\ UNCHANGED subnetIDStr
       ELSE LET r == slotSelect(wret.info.Subnets, Cardinality(wret.info.CustomVms)) IN
            /\ clusterInfo' = [wret.info EXCEPT !.Subnets = SortStrings(wret.info.Subnets)]
            /\ IF r.err # NoErr
               THEN Return(Failed(r.err)) /\ UNCHANGED subnetIDStr
               ELSE /\ subnetIDStr' = r.id
                    /\ pc' = "BlockchainCreate"
                    /\ UNCHANGED <<ret, cli>>
    /\ Taken
    /\ UNCHANGED <<phase, wpc, timer, networkBooted, net, calls, pluginReq, sentSpecs, cancel>>
    /\ DeployFrame

blockchainSpecsTwice(vmName, genesis, subnetId) ==
    <<[VmName |-> vmName, Genesis |-> genesis, SubnetId |-> subnetId],
      [VmName |-> vmName, Genesis |-> genesis, SubnetId |-> subnetId]>>

\* lines 193-199: the blockchainSpecs slice
blockchainSpecs(vmName, genesis, subnetId) ==
    <<[VmName |-> vmName, Genesis |-> genesis, SubnetId |-> subnetId]>>

\* lines 193-211: cli.CreateBlockchains(ctx, blockchainSpecs)
BlockchainCreate ==
    /\ pc = "BlockchainCreate"
    /\ sentSpecs' = blockchainSpecs(chain, ChainGenesis(chain), subnetIDStr)
    /\ calls' = Logged("CreateBlockchains")
    /\ \E ok \in BOOLEAN :
        IF ok
        THEN /\ \E listed \in CreatedEntries(String(VMID(chain).id)) :
                    net' = [net EXCEPT !.customVms = @ \cup listed]
             /\ StartWait("confirm2")
             /\ UNCHANGED <<ret, cli>>
        ELSE /\ Return(Failed(<<"failed", "to", "deploy", "blockchain">>))
             /\ UNCHANGED <<net, phase, wpc, timer, polls, cancel>>
    /\ Kept
    /\ UNCHANGED <<networkBooted, clusterInfo, subnetIDStr, pluginReq>>
    /\ DeployFrame

\* DeployFrame without the log of assigned slots
ReportFrame ==
    UNCHANGED <<chain, genesisFile, serverRunning, backendStartedHere, ctxDone, fs, httpGets,
                deploys, lastCall, ask>>

\* lines 213-253: the HealthConfirm2 answer and the report.  noted: the subnet
\* identifier of a successful return is appended to the log assigned when the
\* network lists a blockchain of the chain's VM (the deployment added a custom VM)
ReportNoting(noted) ==
    /\ pc = "Confirmed2"
    /\ IF wret.err # NoErr
       THEN /\ Return(Failed(Wrap(<<"failed", "to", "query", "network", "health:">>, wret.err)))
            /\ clusterInfo' = wret.info
       ELSE /\ clusterInfo' = wret.info
            /\ \E orders \in MapOrders(wret.info) :
               LET endpoints == GetEndpoints(wret.info, orders) IN
               IF Len(endpoints) = 0
               THEN \* endpoints[0]: index out of range, doDeploy panics; the deferred
                    \* cli.Close() of line 118 runs while the panic unwinds
                    pc' = "panic" /\ cli' = Closed(cli) /\ UNCHANGED ret
               ELSE IF ~SliceInRange(endpoints[1])
               THEN \* line 229, firstURL[-1:]: slice bounds out of range, doDeploy
                    \* panics the same way
                    pc' = "panic" /\ cli' = Closed(cli) /\ UNCHANGED ret
               ELSE LET matches == {info \in wret.info.CustomVms :
                                        info.VmId = String(VMID(chain).id)}
                    IN  IF matches = {}
                        THEN Return(Returned(FromString(subnetIDStr), Empty))
                        ELSE \E info \in matches :
                                Return(Returned(FromString(subnetIDStr),
                                                FromString(info.BlockchainId)))
    /\ assigned' = IF /\ noted
                      /\ pc' = "done"
                      /\ ret'.err = NoErr
                      /\ alreadyDeployed(VMID(chain).id, wret.info)
                   THEN Append(assigned, String(ret'.subnetID))
                   ELSE assigned
    /\ Taken
    /\ UNCHANGED <<phase, wpc, timer, networkBooted, subnetIDStr, net, calls, pluginReq,
                   sentSpecs, cancel>>
    /\ ReportFrame

Report == ReportNoting(FALSE)

----------------------------------------------------------------------------

Next ==
    \/ DeployToLocalNetwork
    \/ ServerStops
    \/ DoSetupLocalEnv
    \/ GetClient
    \/ GenesisValidate
    \/ CtxExpire
    \/ TimerFire
    \/ SelectEnter
    \/ SelectCtxDone
    \/ SelectTick
    \/ HealthPoll
    \/ ProbeResult
    \/ PluginInstall
    \/ NetworkBoot
    \/ SlotSelect
    \/ BlockchainCreate
    \/ Report

Spec == Init /\ [][Next]_vars

\* the flow of one invocation: the goroutine running doDeploy and WaitForHealthy
Flow ==
    \/ DoSetupLocalEnv
    \/ GetClient
    \/ GenesisValidate
    \/ SelectEnter
    \/ SelectCtxDone
    \/ SelectTick
    \/ HealthPoll
    \/ ProbeResult
    \/ PluginInstall
    \/ NetworkBoot
    \/ SlotSelect
    \/ BlockchainCreate
    \/ Report

\* the Go scheduler runs a runnable goroutine and the runtime fires a due timer;
\* nothing is assumed about the context's deadline or the backend's answers
FairSpec == Init /\ [][Next]_vars /\ WF_vars(Flow) /\ WF_vars(TimerFire)

----------------------------------------------------------------------------
(* The provisioning functions called on their own: SetDefaultSnapshot is      *)
(* exported and takes a force flag (doDeploy passes false); setupLocalEnv is  *)
(* the binary provisioning of SetupLocalEnv.  Any disk, any order of calls.   *)

DirStates == {"absent", "partial", "ok"}

\* the disks: the archive file, the extracted snapshot directory and the binary
\* directory are independent of each other
ProvisionDisks ==
    {f \in [archive : DirStates, snapshot : DirStates, avago : DirStates,
            plugins : BOOLEAN, bin : BOOLEAN] :
        f.avago = "absent" => ~f.plugins /\ ~f.bin}

ProvisionInit ==
    /\ pc = "provision"
    /\ fs \in ProvisionDisks
    /\ lastCall = NoCall
    /\ chain = "a"
    /\ genesisFile = "ok"
    /\ net = ShippedNet
    /\ serverRunning = FALSE
    /\ backendStartedHere = FALSE
    /\ cli = "none"
    /\ ctxDone = FALSE
    /\ phase = "none"
    /\ wpc = "none"
    /\ timer = "none"
    /\ polls = 0
    /\ lastResp = NoResp
    /\ wret = NoWait
    /\ networkBooted = TRUE
    /\ clusterInfo = NilInfo
    /\ subnetIDStr = <<>>
    /\ httpGets = 0
    /\ calls = <<>>
    /\ pluginReq = {}
    /\ sentSpecs = <<>>
    /\ deploys = 0
    /\ ret = Running
    /\ cancel = <<>>
    /\ assigned = <<>>
    /\ ask = NoAsk

ProvisionFrame ==
    UNCHANGED <<pc, chain, genesisFile, serverRunning, backendStartedHere, cli, ctxDone,
                phase, wpc, timer, polls, lastResp, wret, networkBooted, clusterInfo,
                subnetIDStr, net, httpGets, calls, pluginReq, sentSpecs, deploys, ret,
                cancel, assigned, ask>>

\* a call SetDefaultSnapshot(snapshotsDir, force)
CallSetDefaultSnapshot ==
    /\ pc = "provision"
    /\ \E force \in BOOLEAN :
       \E env \in (IF force THEN ForceEnvs ELSE SnapEnvs) :
        LET r == SetDefaultSnapshot(fs, force, env) IN
        /\ fs' = r.fs
        /\ lastCall' = [op |-> "SetDefaultSnapshot", force |-> force,
                        http |-> IF r.gets > 0 THEN env.http ELSE "none",
                        err |-> r.err, extracted |-> r.extracted, gets |-> r.gets]
    /\ ProvisionFrame

\* a call d.setupLocalEnv()
CallSetupLocalEnv ==
    /\ pc = "provision"
    /\ \E env \in BinEnvs :
        LET r == setupLocalEnv(fs, env) IN
        /\ fs' = r.fs
        /\ lastCall' = [op |-> "setupLocalEnv", force |-> FALSE,
                        http |-> IF r.gets > 0 THEN env.http ELSE "none",
                        err |-> r.err, extracted |-> r.extracted, gets |-> r.gets]
    /\ ProvisionFrame

ProvisionNext ==
    \/ CallSetDefaultSnapshot
    \/ CallSetupLocalEnv

ProvisionSpec == ProvisionInit /\ [][ProvisionNext]_vars

----------------------------------------------------------------------------
(* A series of deployments on one network: each DeployToLocalNetwork call runs *)
(* to its end before the next one starts (sequential use) and the backend      *)
(* keeps the network between the calls.  The steps are those of Spec.          *)

\* the chains deployed in a series
SeriesChains == {"a", "b", "c"}

\* the networks a series starts on: running, restored from the default snapshot
\* (no custom VM yet), with one node
SeriesNetworks == {n \in Networks : n.booted /\ n.customVms = {} /\ Cardinality(n.nodes) = 1}

SeriesInit ==
    /\ pc = "idle"
    /\ net \in SeriesNetworks
    /\ assigned = <<>>
    /\ chain = "a"
    /\ genesisFile = "ok"
    /\ fs = ReadyDisk
    /\ serverRunning = TRUE
    /\ backendStartedHere = FALSE
    /\ cli = "none"
    /\ ctxDone = FALSE
    /\ phase = "none"
    /\ wpc = "none"
    /\ timer = "none"
    /\ polls = 0
    /\ lastResp = NoResp
    /\ wret = NoWait
    /\ networkBooted = TRUE
    /\ clusterInfo = NilInfo
    /\ subnetIDStr = <<>>
    /\ httpGets = 0
    /\ calls = <<>>
    /\ pluginReq = {}
    /\ sentSpecs = <<>>
    /\ deploys = 0
    /\ ret = Running
    /\ lastCall = NoCall
    /\ cancel = <<>>
    /\ ask = NoAsk

\* the next DeployToLocalNetwork call of the series (the genesis file is there)
SeriesInvoke == Invoke(SeriesChains, {"ok"}, MaxSeries)

\* the report of a deployment of the series; a successful one is logged
SeriesReport == ReportNoting(TRUE)

SeriesNext ==
    \/ SeriesInvoke
    \/ DoSetupLocalEnv
    \/ GetClient
    \/ GenesisValidate
    \/ CtxExpire
    \/ TimerFire
    \/ SelectEnter
    \/ SelectCtxDone
    \/ SelectTick
    \/ HealthPoll
    \/ ProbeResult
    \/ PluginInstall
    \/ NetworkBoot
    \/ SlotSelect
    \/ BlockchainCreate
    \/ SeriesReport

SeriesSpec == SeriesInit /\ [][SeriesNext]_vars

----------------------------------------------------------------------------
(* getChainID (package vm): the prompt for the chain ID of a new subnet.  The *)
(* prompt (app.Prompt) and the existence check (app.ChainIDExists) are the    *)
(* environment.  In ask, chainID = 0 stands for the nil *big.Int.             *)

\* the positive integers a user enters
ChainIDs == {1, 9, 10, 43113, 43114}

\* the errors of the prompt (interrupt, end of input) and of the existence check
PromptErrs == {<<"^C">>, <<"EOF">>}
ExistsErrs == {<<"read", "sidecar", "failed">>}

RECURSIVE BigIntString(_)
\* (*big.Int).String() of a positive integer: its decimal digits
BigIntString(n) ==
    IF n < 10 THEN <<n>> ELSE Append(BigIntString(n \div 10), n % 10)

ExistsDecisionAccept(exists, err) ==
    IF err # NoErr THEN "error" ELSE "return"

\* lines 23-31: what getChainID does with the answer of app.ChainIDExists
ExistsDecision(exists, err) ==
    IF err # NoErr THEN "error"
    ELSE IF exists THEN "again"
    ELSE "return"

ChainIDInit ==
    /\ pc = "getChainID"
    /\ ask = NoAsk
    /\ assigned = <<>>
    /\ net = ShippedNet
    /\ chain = "a"
    /\ genesisFile = "ok"
    /\ fs = ReadyDisk
    /\ serverRunning = FALSE
    /\ backendStartedHere = FALSE
    /\ cli = "none"
    /\ ctxDone = FALSE
    /\ phase = "none"
    /\ wpc = "none"
    /\ timer = "none"
    /\ polls = 0
    /\ lastResp = NoResp
    /\ wret = NoWait
    /\ networkBooted = TRUE
    /\ clusterInfo = NilInfo
    /\ subnetIDStr = <<>>
    /\ httpGets = 0
    /\ calls = <<>>
    /\ pluginReq = {}
    /\ sentSpecs = <<>>
    /\ deploys = 0
    /\ ret = Running
    /\ lastCall = NoCall
    /\ cancel = <<>>

ChainIDFrame ==
    UNCHANGED <<pc, chain, genesisFile, serverRunning, backendStartedHere, cli, ctxDone,
                phase, wpc, timer, polls, lastResp, wret, networkBooted, clusterInfo,
                subnetIDStr, net, fs, httpGets, calls, pluginReq, sentSpecs, deploys, ret,
                lastCall, cancel, assigned>>

\* a caller calls getChainID(app)
CallGetChainID ==
    /\ pc = "getChainID"
    /\ ask.pc \in {"none", "done"}
    /\ ask' = [NoAsk EXCEPT !.pc = "prompt"]
    /\ ChainIDFrame

\* lines 15-20: the prompt; its error ends the call (and, through the return
\* statements of line 28, every enclosing call) with nil and that error
PromptChainID ==
    /\ pc = "getChainID"
    /\ ask.pc = "prompt"
    /\ \/ \E n \in ChainIDs :
            ask' = [ask EXCEPT !.pc = "exists", !.prompts = Min(@ + 1, MaxPrompts),
                               !.entered = n, !.perr = NoErr]
       \/ \E e \in PromptErrs :
            ask' = [ask EXCEPT !.pc = "done", !.prompts = Min(@ + 1, MaxPrompts),
                               !.entered = 0, !.perr = e, !.chainID = 0, !.err = e]
    /\ ChainIDFrame

\* lines 22-31: app.ChainIDExists(chainID.String()) and what follows from its
\* answer; the recursive call of line 28 prompts again and its result is returned
ChainIDExists ==
    /\ pc = "getChainID"
    /\ ask.pc = "exists"
    /\ \E exists \in BOOLEAN, e \in {NoErr} \cup ExistsErrs :
        LET d == ExistsDecision(exists, e)
            a == [ask EXCEPT !.checked = BigIntString(ask.entered), !.exists = exists,
                             !.cerr = e]
        IN  ask' = CASE d = "error" -> [a EXCEPT !.pc = "done", !.chainID = 0, !.err = e]
                     [] d = "again" -> [a EXCEPT !.pc = "prompt"]
                     [] OTHER -> [a EXCEPT !.pc = "done", !.chainID = ask.entered,
                                           !.err = NoErr]
    /\ ChainIDFrame

ChainIDNext ==
    \/ CallGetChainID
    \/ PromptChainID
    \/ ChainIDExists

ChainIDSpec == ChainIDInit /\ [][ChainIDNext]_vars

----------------------------------------------------------------------------
(* Vocabulary of the properties *)

Issued(op) == \E i \in 1..Len(calls) : calls[i] = op

Times(op) == Cardinality({i \in 1..Len(calls) : calls[i] = op})

\* the invocation has ended
Ended == pc \in {"done", "panic"}

\* WaitForHealthy has just returned to doDeploy
Waited == pc \in {"Probed", "Confirmed", "Confirmed2"}

\* an answer of cli.Health with both health flags true
BothHealthy(resp) ==
    /\ resp.kind = "resp"
    /\ resp.err = NoErr
    /\ ~resp.ClusterInfo.nil
    /\ resp.ClusterInfo.Healthy
    /\ resp.ClusterInfo.CustomVmsHealthy

\* an answer of cli.Health without error that is nil or lacks a health flag
NotYetHealthy(resp) ==
    /\ resp.kind = "resp"
    /\ resp.err = NoErr
    /\ \/ resp.ClusterInfo.nil
       \/ ~resp.ClusterInfo.Healthy
       \/ ~resp.ClusterInfo.CustomVmsHealthy

\* the message holds the words "not bootstrapped" next to each other
SaysNotBootstrapped(err) ==
    \E i \in 1..Len(err) : i < Len(err) /\ err[i] = "not" /\ err[i + 1] = "bootstrapped"

HealthFailure(err) == Wrap(<<"failed", "to", "query", "network", "health:">>, err)

----------------------------------------------------------------------------
(* C1 *)

\* C1: an invocation whose genesis file is missing or is no valid JSON issues
\* neither LoadSnapshot nor CreateBlockchains at any point, and ends by returning
\* an error.
C1_GenesisFailsFast ==
    genesisFile \in {"missing", "badjson"} =>
        /\ ~Issued("LoadSnapshot")
        /\ ~Issued("CreateBlockchains")
        /\ pc \in {"idle", "SetupLocalEnv", "getClient", "GenesisValidate", "done"}
        /\ pc = "done" => ret.status = "returned" /\ ret.err # NoErr

\* doDeploy got as far as parsing the genesis file, which is no valid JSON, and returned
C1_Witness ==
    /\ pc = "done"
    /\ genesisFile = "badjson"
    /\ cli = "closed"
    /\ ret.err = Wrap(<<"failed", "to", "unpack", "chain", "ID", "from", "genesis:">>,
                      <<"invalid", "character">>)

(* C2 *)

\* the probe's cluster info, taken over by doDeploy, holds the requested chain's VM identifier
ProbeFoundChain ==
    /\ phase = "probe"
    /\ pc \notin {"WaitForHealthy", "Probed"}
    /\ ~clusterInfo.nil
    /\ VMID(chain).ok
    /\ String(VMID(chain).id) \in {vmInfo.VmId : vmInfo \in clusterInfo.CustomVms}

\* C2: when the probe's cluster info already holds the requested chain's VM
\* identifier, deploy returns success with empty identifiers, and the probe's
\* Health polls are the only calls of the invocation: no plugin installation, no
\* LoadSnapshot, no CreateBlockchains, no further Health.
C2_AlreadyDeployedNoOp ==
    ProbeFoundChain =>
        /\ pc = "done"
        /\ ret = Returned(Empty, Empty)
        /\ calls = <<"Health:probe">>
        /\ pluginReq = {}
        /\ sentSpecs = <<>>

C2_Witness ==
    /\ ProbeFoundChain
    /\ pc = "done"
    /\ ret.err = NoErr
    /\ Cardinality(clusterInfo.CustomVms) = 2

(* C3 *)

\* the slot has been selected and the cluster info of HealthConfirm is still held
SlotChosen ==
    \/ pc = "BlockchainCreate"
    \/ phase = "confirm2" /\ pc \in {"WaitForHealthy", "Confirmed2"}

\* C3: the subnet identifier selected from the HealthConfirm cluster info, and
\* submitted to CreateBlockchains, is the element of the pool that has exactly
\* C mod N pool elements before it in string order (N the pool size, C the number
\* of custom VMs): sorted(pool)[C mod N].  On the pool [s3, s1, s2] with C = 4
\* that is s2.
C3_SlotIsSortedIndex ==
    /\ SelectSubnet(<< <<3>>, <<1>>, <<2>> >>, 4) = <<2>>
    /\ SlotChosen =>
        LET pool == {clusterInfo.Subnets[i] : i \in 1..Len(clusterInfo.Subnets)}
            N == Len(clusterInfo.Subnets)
            C == Cardinality(clusterInfo.CustomVms)
        IN  /\ N > 0
            /\ {net.subnets[i] : i \in 1..Len(net.subnets)} = pool
            /\ subnetIDStr \in pool
            /\ Cardinality({x \in pool : StrLess(x, subnetIDStr)}) = C % N
            /\ sentSpecs # <<>> => sentSpecs[1].SubnetId = subnetIDStr

\* the backend's pool is out of order, the count wraps around, and the first of
\* the sorted pool has been submitted
C3_Witness ==
    /\ sentSpecs # <<>>
    /\ phase = "confirm2"
    /\ net.subnets = << <<2>>, <<1, 2>> >>
    /\ Cardinality(clusterInfo.CustomVms) = 2
    /\ sentSpecs[1].SubnetId = <<1, 2>>

(* C4 *)

\* doDeploy has taken over a HealthConfirm cluster info whose subnet pool is empty
ConfirmedEmptyPool ==
    /\ phase = "confirm"
    /\ pc \notin {"WaitForHealthy", "Confirmed"}
    /\ ~clusterInfo.nil
    /\ clusterInfo.Subnets = <<>>

\* C4: when the HealthConfirm cluster info has an empty subnet pool, doDeploy
\* returns the error "the network has not preloaded subnet IDs" and has not
\* issued CreateBlockchains.
C4_EmptyPoolRefused ==
    ConfirmedEmptyPool =>
        /\ pc = "done"
        /\ ret = Failed(ErrNoSubnets)
        /\ ~Issued("CreateBlockchains")
        /\ sentSpecs = <<>>

C4_Witness ==
    /\ ConfirmedEmptyPool
    /\ pc = "done"
    /\ Issued("Health:confirm")
    /\ ret.err = ErrNoSubnets

(* C5 *)

\* C5: WaitForHealthy returns success only with the cluster info of the one
\* Health answer it just received, in which both health flags are true; an
\* answer that is nil or lacks a flag leaves WaitForHealthy polling, back at its
\* select statement.
C5_SuccessOnlyWhenBothHealthy ==
    /\ (Waited /\ wret.err = NoErr) =>
            /\ BothHealthy(lastResp)
            /\ wret.info = lastResp.ClusterInfo
    /\ NotYetHealthy(lastResp) => pc = "WaitForHealthy" /\ wpc = "enter"

\* a success that came after an earlier answer of the same call was not accepted
C5_Witness ==
    /\ pc = "Confirmed"
    /\ wret.err = NoErr
    /\ polls >= 2
    /\ BothHealthy(lastResp)

(* C6 *)

\* C6 (as claimed): once the context is done, WaitForHealthy does not return
\* success, whatever the backend answers to a Health call: what it returns is an
\* error.
C6_NoSuccessOnceCancelled == (Waited /\ ctxDone) => wret.err # NoErr

(* C7 *)

\* C7: an error of the Health call ends WaitForHealthy at once: it has returned
\* that error, wrapped, with no cluster info, and polls no more.
C7_RpcErrorIsFinal ==
    (lastResp.kind = "resp" /\ lastResp.err # NoErr) =>
        /\ Waited
        /\ wret.info = NilInfo
        /\ wret.err = Wrap(<<"the", "health", "check", "failed", "to", "complete.">>, lastResp.err)

\* the second poll of a call failed
C7_Witness ==
    /\ pc = "Confirmed"
    /\ lastResp.kind = "resp"
    /\ lastResp.err = ErrConnRefused
    /\ polls = 2
    /\ wret.err # NoErr

(* C8 *)

\* C8 (as claimed): WaitForHealthy has no retry cap (after any number of polls,
\* an answer without error that is nil or lacks a flag sends it back to its select
\* statement); an answer with both flags true ends it with success; and once the
\* context is done it eventually returns, and what it then returns is the
\* cancellation error.
C8_TerminatesWithCancellation ==
    /\ [][(pc = "WaitForHealthy" /\ wpc = "tick" /\ NotYetHealthy(lastResp'))
            => pc' = "WaitForHealthy" /\ wpc' = "enter"]_vars
    /\ [][(pc = "WaitForHealthy" /\ wpc = "tick" /\ BothHealthy(lastResp'))
            => pc' = After(phase) /\ wret'.err = NoErr]_vars
    /\ (pc = "WaitForHealthy" /\ ctxDone) ~> (pc # "WaitForHealthy")
    /\ [][(pc = "WaitForHealthy" /\ ctxDone /\ pc' # "WaitForHealthy")
            => wret'.err = ErrDeadline]_vars

(* C9 *)

\* C9: at the probe, an error whose message says "not bootstrapped" does not
\* fail the deployment: doDeploy records networkBooted = false, holds no cluster
\* info and goes on (to plugin installation when the chain has a VM identifier);
\* any other error of the probe, the context's included, makes doDeploy return
\* the health failure before any plugin installation, LoadSnapshot or
\* CreateBlockchains.
C9_ProbeErrorClasses ==
    [][(pc = "Probed" /\ wret.err # NoErr) =>
        IF SaysNotBootstrapped(wret.err)
        THEN /\ networkBooted' = FALSE
             /\ clusterInfo' = NilInfo
             /\ VMID(chain).ok => pc' = "PluginInstall" /\ ret' = Running
             /\ ret'.err # HealthFailure(wret.err)
        ELSE /\ pc' = "done"
             /\ ret' = Failed(HealthFailure(wret.err))
             /\ calls' = <<"Health:probe">> \/ calls' = <<>>
             /\ pluginReq' = {}]_vars

\* the deployment went on after a "not bootstrapped" probe
C9_Witness ==
    /\ pc = "PluginInstall"
    /\ networkBooted = FALSE
    /\ clusterInfo = NilInfo
    /\ calls = <<"Health:probe">>

(* C10 *)

\* plugin installation was called and did not fail
PluginsInstalled == Issued("Download") /\ ~(pc = "done" /\ ret.err = ErrDownload)

\* C10 (as claimed): LoadSnapshot is issued at most once, and an invocation
\* issues it if and only if the probe recorded networkBooted = false and plugin
\* installation succeeded.
C10_BootIffUnbooted ==
    /\ Times("LoadSnapshot") <= 1
    /\ Ended => (Issued("LoadSnapshot") <=> (~networkBooted /\ PluginsInstalled))

\* C10 (amended): LoadSnapshot is issued at most once, and an invocation issues
\* it if and only if the probe recorded networkBooted = false, plugin
\* installation succeeded and the node configuration was loaded without error;
\* when the probe found a healthy network it is never issued.
C10_BootIffUnbootedAndConfigured ==
    /\ Times("LoadSnapshot") <= 1
    /\ networkBooted => ~Issued("LoadSnapshot")
    /\ Ended => (Issued("LoadSnapshot") <=>
                    (~networkBooted /\ PluginsInstalled /\ ret.err # ErrLoadNodeConfig))

\* a deployment that booted the network and went through
C10_Witness ==
    /\ pc = "done"
    /\ ret.err = NoErr
    /\ ~networkBooted
    /\ calls = <<"Health:probe", "Download", "LoadSnapshot", "Health:confirm",
                 "CreateBlockchains", "Health:confirm2">>

(* C11 *)

\* the calls doDeploy issues through the client and the downloader
DeployOps ==
    {"Health:probe", "Download", "LoadSnapshot", "Health:confirm", "CreateBlockchains",
     "Health:confirm2"}

AfterPluginInstall == pc = "NetworkBoot" \/ (pc = "done" /\ ret.err = ErrDownload)

\* C12: the set handed to the downloader holds the requested VM identifier and
\* the VM identifier of every custom VM of the probe's cluster info, and nothing
\* else; without cluster info (network not booted) it holds the requested
\* identifier only.  When the downloader fails, deploy returns its error having
\* issued the probe and the download only.
C12_PluginSet ==
    /\ AfterPluginInstall =>
        /\ \A v \in VmIds :
            v \in pluginReq <=>
                \/ v = String(VMID(chain).id)
                \/ ~clusterInfo.nil /\ \E vmInfo \in clusterInfo.CustomVms : vmInfo.VmId = v
        /\ pluginReq \subseteq VmIds
        /\ ~networkBooted => clusterInfo.nil /\ pluginReq = {String(VMID(chain).id)}
    /\ (pc = "done" /\ ret.err = ErrDownload) =>
        /\ ret = Failed(ErrDownload)
        /\ calls = <<"Health:probe", "Download">>
        /\ sentSpecs = <<>>

\* the downloader failed on a set of three: the requested VM and two running ones
C12_Witness ==
    /\ pc = "done"
    /\ ret.err = ErrDownload
    /\ Cardinality(pluginReq) = 3
    /\ Cardinality(clusterInfo.CustomVms) = 2

(* C13 *)

\* the cluster infos GetEndpoints is looked at on: the one doDeploy is about to
\* pass to it (line 218), and, before the first invocation, the one of the
\* network the backend holds
InfosAtHand ==
    IF pc = "Confirmed2" /\ wret.err = NoErr THEN {wret.info}
    ELSE IF pc = "idle" THEN {InfoOf(net, TRUE, TRUE)}
    ELSE {}

\* C13: whatever the iteration order of the map, GetEndpoints returns a list of
\* |nodes| x |custom VMs| lines in which every (node, custom VM) pair has
\* exactly one line; with no node or no custom VM the list is empty.
C13_OneLinePerPair ==
    \A info \in InfosAtHand : \A orders \in MapOrders(info) :
        LET endpoints == GetEndpoints(info, orders)
            n == Cardinality(info.NodeInfos)
            m == Cardinality(info.CustomVms)
        IN  /\ Len(endpoints) = n * m
            /\ \A nodeInfo \in info.NodeInfos : \A vmInfo \in info.CustomVms :
                Cardinality({k \in 1..Len(endpoints) :
                                endpoints[k] = EndpointLine(nodeInfo, vmInfo)}) = 1
            /\ (n = 0 \/ m = 0) => endpoints = <<>>

\* doDeploy is about to list the endpoints of a network of two nodes that runs
\* three custom VMs: six lines, three for each node
C13_Witness ==
    /\ pc = "Confirmed2"
    /\ wret.err = NoErr
    /\ Cardinality(wret.info.NodeInfos) = 2
    /\ Cardinality(wret.info.CustomVms) = 3
    /\ \A orders \in MapOrders(wret.info) : Len(GetEndpoints(wret.info, orders)) = 6

(* C14 *)

ErrQueryServer == <<"failed", "querying", "server", "process">>
ErrLaunchServer == <<"failed", "starting", "gRPC", "server", "process">>

\* C14 (as claimed): backendStartedHere is false before the first call; once
\* true it stays true; it becomes true only in a step of StartServer that found the server
\* not running and launched it (the step goes on to doDeploy); the server is
\* launched only while the flag is false, so the flag is set at most once; and
\* a StartServer that fails, in the query or in the launch, leaves it as it was.
C14_StartedHereWriteOnce ==
    /\ [](deploys = 0 => ~backendStartedHere)
    /\ [][/\ backendStartedHere => backendStartedHere'
          /\ (~backendStartedHere /\ backendStartedHere') =>
                /\ pc \in {"idle", "done"}
                /\ deploys' = deploys + 1
                /\ ~serverRunning /\ serverRunning'
                /\ pc' = "SetupLocalEnv"
          /\ (~serverRunning /\ serverRunning') => (~backendStartedHere /\ backendStartedHere')
          /\ (deploys' = deploys + 1 /\ ret'.err \in {ErrQueryServer, ErrLaunchServer}) =>
                backendStartedHere' = backendStartedHere]_vars

(* C19 *)

\* the place of a call in the order of doDeploy
Rank(op) ==
    CASE op = "Health:probe" -> 1
      [] op = "Download" -> 2
      [] op = "LoadSnapshot" -> 3
      [] op = "Health:confirm" -> 4
      [] op = "CreateBlockchains" -> 5
      [] OTHER -> 6

\* C19: the calls of an invocation come in the order probe Health polls, plugin
\* download, LoadSnapshot, HealthConfirm polls, CreateBlockchains, HealthConfirm2
\* polls; a step issues at most one call; and CreateBlockchains is issued only
\* after the download succeeded and right after the HealthConfirm polls ended
\* with a cluster info, held by doDeploy, whose two health flags are true.
C19_CallOrder ==
    /\ [](\A i \in 1..Len(calls) : \A j \in 1..Len(calls) :
            i < j => Rank(calls[i]) < Rank(calls[j]))
    /\ [][Len(calls') <= Len(calls) + 1]_vars
    /\ [][(~Issued("CreateBlockchains") /\ Len(calls') > 0
            /\ calls'[Len(calls')] = "CreateBlockchains") =>
            /\ Issued("Health:probe")
            /\ Issued("Download")
            /\ pc = "BlockchainCreate"
            /\ calls[Len(calls)] = "Health:confirm"
            /\ ~clusterInfo.nil
            /\ clusterInfo.Healthy
            /\ clusterInfo.CustomVmsHealthy]_vars

\* a deployment onto a running network, polling after CreateBlockchains
C19_Witness ==
    /\ pc = "WaitForHealthy"
    /\ phase = "confirm2"
    /\ polls = 2
    /\ networkBooted
    /\ calls = <<"Health:probe", "Download", "Health:confirm", "CreateBlockchains",
                 "Health:confirm2">>

(* C20 *)

\* C20: an invocation issues CreateBlockchains at most once; the call carries
\* one blockchain specification, whose VM name is the requested chain, whose
\* genesis is the genesis path given for it and whose subnet is the slot
\* selected; without the call nothing was sent.
C20_SingleSpec ==
    /\ Times("CreateBlockchains") <= 1
    /\ Issued("CreateBlockchains") <=> sentSpecs # <<>>
    /\ sentSpecs # <<>> =>
        /\ Len(sentSpecs) = 1
        /\ sentSpecs[1].VmName = chain
        /\ sentSpecs[1].Genesis = <<"genesis", chain>>
        /\ sentSpecs[1].SubnetId = subnetIDStr
        /\ subnetIDStr \in {net.subnets[i] : i \in 1..Len(net.subnets)}

\* the second invocation of the instance sent the specification of chain b, and the call failed
C20_Witness ==
    /\ deploys = 2
    /\ pc = "done"
    /\ ret.err = <<"failed", "to", "deploy", "blockchain">>
    /\ Len(sentSpecs) = 1
    /\ sentSpecs[1].VmName = "b"

(* C15 *)

ErrLocate == <<"failed", "trying", "to", "locate", "avalanchego", "binary">>

\* C15: a call of setupLocalEnv in which the binary checker answers, without
\* error, that an avalanchego installation exists returns without error, issues
\* no HTTP request, extracts nothing and leaves the disk as it was.
C15_ExistingBinaryNoOp ==
    [][(lastCall'.op = "setupLocalEnv" /\ fs.avago # "absent" /\ lastCall'.err # ErrLocate) =>
        /\ lastCall'.err = NoErr
        /\ lastCall'.gets = 0
        /\ lastCall'.http = "none"
        /\ ~lastCall'.extracted
        /\ fs' = fs]_vars

\* setupLocalEnv returned without a request on a disk that holds an installation
\* (which, without a request, it held before the call)
C15_Witness ==
    /\ lastCall.op = "setupLocalEnv"
    /\ lastCall.err = NoErr
    /\ lastCall.gets = 0
    /\ fs.avago = "ok"
    /\ fs.archive = "absent"

(* C16 *)

\* C16: a provisioning call (SetDefaultSnapshot or setupLocalEnv) whose download
\* is answered with a status other than 200, or whose body cannot be read,
\* returns an error, has extracted nothing and leaves the disk as it was.
C16_FailedDownloadWritesNothing ==
    [][lastCall'.http \in {"non200", "readerr"} =>
        /\ lastCall'.err # NoErr
        /\ lastCall'.gets = 1
        /\ ~lastCall'.extracted
        /\ fs' = fs]_vars

\* the download of the avalanchego archive was answered with a status other than 200
C16_Witness ==
    /\ lastCall.op = "setupLocalEnv"
    /\ lastCall.http = "non200"
    /\ lastCall.err = <<"unexpected", "http", "status", "code">>
    /\ fs.avago = "absent"
    /\ fs.snapshot = "ok"

(* C17 *)

\* C17: on a disk that holds both the bootstrap archive and the extracted
\* default snapshot directory, a call of SetDefaultSnapshot with force = false
\* returns without error, issues no HTTP request, extracts nothing and leaves the
\* disk as it was (so the same holds of the next such call, and of any number).
C17_UnforcedIdempotent ==
    [][(lastCall'.op = "SetDefaultSnapshot" /\ ~lastCall'.force
        /\ fs.archive # "absent" /\ fs.snapshot # "absent") =>
        /\ lastCall'.err = NoErr
        /\ lastCall'.gets = 0
        /\ lastCall'.http = "none"
        /\ ~lastCall'.extracted
        /\ fs' = fs]_vars

\* an unforced call that found the archive (no request) and the directory (no extraction)
C17_Witness ==
    /\ lastCall.op = "SetDefaultSnapshot"
    /\ ~lastCall.force
    /\ lastCall.err = NoErr
    /\ lastCall.gets = 0
    /\ ~lastCall.extracted
    /\ fs.archive = "ok"
    /\ fs.snapshot = "ok"

(* C18 *)

\* C18 (as claimed): every call of SetDefaultSnapshot with force = true removes
\* the extracted default snapshot directory before any extraction (what is on
\* disk afterwards is no directory, or what this call's extraction produced),
\* and when the call succeeds the directory is a fresh extraction.
C18_ForceAlwaysRenews ==
    [][(lastCall'.op = "SetDefaultSnapshot" /\ lastCall'.force) =>
        /\ fs'.snapshot = "absent" \/ lastCall'.extracted
        /\ lastCall'.err = NoErr => (lastCall'.extracted /\ fs'.snapshot = "ok")]_vars

(* C21 *)

\* doDeploy returned success after it had issued CreateBlockchains
DeployedHere == pc = "done" /\ ret.err = NoErr /\ Issued("CreateBlockchains")

\* C21 (as claimed): when doDeploy returns success after creating a blockchain,
\* the subnet ID it returns reads as the subnet submitted in the specification,
\* and the blockchain ID it returns reads as the blockchain identifier of a
\* custom VM of the HealthConfirm2 cluster info whose VM identifier is the one
\* of the requested chain.
C21_ReturnedIDs ==
    DeployedHere =>
        /\ String(ret.subnetID) = sentSpecs[1].SubnetId
        /\ ~clusterInfo.nil
        /\ \E vmInfo \in clusterInfo.CustomVms :
            /\ vmInfo.VmId = <<"vm", chain>>
            /\ String(ret.blockchainID) = vmInfo.BlockchainId

(* C23 *)

\* doDeploy returned because the genesis file is missing or does not parse
GenesisRefused ==
    /\ pc = "done"
    /\ \/ ret.err = <<"evaluated", "chain", "genesis", "file", "does", "not", "exist">>
       \/ /\ Len(ret.err) > 7
          /\ SubSeq(ret.err, 1, 7) = <<"failed", "to", "unpack", "chain", "ID", "from", "genesis:">>

\* C23 (as claimed): a deployment whose genesis file is missing or does not
\* parse returns its error having downloaded nothing (no snapshot, no binary),
\* installed no plugin and issued no call through the client.
C23_GenesisFailureNoSideEffect ==
    GenesisRefused =>
        /\ httpGets = 0
        /\ pluginReq = {}
        /\ calls = <<>>

(* C24 *)

\* C24 (as claimed): the Report step completes whatever cluster info
\* HealthConfirm2 returned with both health flags true: doDeploy returns and
\* never crashes in it.
C24_ReportNeverCrashes ==
    [][(pc = "Confirmed2" /\ wret.err = NoErr) => pc' # "panic"]_vars

----------------------------------------------------------------------------
(* C25 *)

\* a step that enters WaitForHealthy / a step on which WaitForHealthy returns
WaitStarts == pc # "WaitForHealthy" /\ pc' = "WaitForHealthy"
WaitReturns == pc = "WaitForHealthy" /\ pc' # "WaitForHealthy"

\* what the polling loop alone yields: the context's error at a select, or the
\* outcome of the last Health answer
PollingResults(resp, done) ==
    (IF done THEN {[info |-> NilInfo, err |-> ErrDeadline]} ELSE {})
    \cup (IF resp.kind # "resp" THEN {}
          ELSE IF resp.err # NoErr
          THEN {[info |-> NilInfo,
                 err |-> Wrap(<<"the", "health", "check", "failed", "to", "complete.">>, resp.err)]}
          ELSE IF BothHealthy(resp) THEN {[info |-> resp.ClusterInfo, err |-> NoErr]}
          ELSE {})

\* every channel made so far has exactly one progress task listening; it has
\* been closed exactly once if its WaitForHealthy call has returned and not at
\* all if the call is still polling
ChannelsSettled ==
    \A i \in 1..Len(cancel) :
        /\ cancel[i].listeners = 1
        /\ cancel[i].closes = IF i = Len(cancel) /\ pc = "WaitForHealthy" THEN 0 ELSE 1

\* C25: each WaitForHealthy call makes one cancel channel and starts exactly one
\* progress task on it; the channel is closed exactly once when the call returns,
\* whether with the cluster info, with an RPC error or with the context's error, so
\* no task stays un-signalled after its polling loop; and the value returned is
\* the one the polling loop yields (the context's error or the outcome of the last
\* Health answer), whatever the task does
C25_OneTaskClosedOnEveryReturn ==
    [][/\ ChannelsSettled'
       /\ WaitStarts => Len(cancel') = Len(cancel) + 1
       /\ WaitReturns =>
            /\ Len(cancel') = Len(cancel)
            /\ cancel[Len(cancel)].closes = 0
            /\ cancel'[Len(cancel)].closes = 1
            /\ wret' \in PollingResults(lastResp', ctxDone)
       /\ (~WaitStarts /\ ~WaitReturns) => (cancel' = cancel \/ (pc \in {"idle", "done"} /\ cancel' = <<>>))]_vars

\* an invocation has ended after three WaitForHealthy calls that returned on the
\* three paths: the probe with an RPC error (not bootstrapped), HealthConfirm with
\* the cluster info, HealthConfirm2 with the context's error
C25_Witness ==
    /\ pc = "done"
    /\ Len(cancel) = 3
    /\ \A i \in 1..3 : cancel[i] = [listeners |-> 1, closes |-> 1]
    /\ ~networkBooted
    /\ ret.err = Wrap(<<"failed", "to", "query", "network", "health:">>, ErrDeadline)

----------------------------------------------------------------------------
(* C22 *)

\* the number of slots of the pool that sort before slot x
SlotsBefore(x) ==
    Cardinality({i \in 1..Len(net.subnets) : StrLess(net.subnets[i], x)})

\* every blockchain the network runs was created by a deployment of the series
\* that then returned successfully (none failed after its creation, none is still
\* between its creation and its return)
AllSucceeded == Len(assigned) = Cardinality(net.customVms)

\* C22: on a network with a fixed pool of N slots, the k-th successful deployment
\* of a series of distinct chains (k = 0, 1, 2, ...) is given the slot of the pool
\* that has exactly k mod N slots sorting before it, that is sorted(pool)[k mod N];
\* so the first N deployments get pairwise distinct slots and two deployments
\* share a slot only when the later one comes after N blockchains are deployed
C22_RoundRobin ==
    LET N == Len(net.subnets) IN
    AllSucceeded =>
        /\ \A k \in 0..(Len(assigned) - 1) :
            /\ \E i \in 1..N : net.subnets[i] = assigned[k + 1]
            /\ SlotsBefore(assigned[k + 1]) = k % N
        /\ \A i, j \in 1..Len(assigned) :
            /\ (i < j /\ j <= N) => assigned[i] # assigned[j]
            /\ (i < j /\ assigned[i] = assigned[j]) => j > N

\* three chains are deployed, one after the other, on a pool of two slots held in
\* unsorted order: the third deployment wraps around to the slot of the first
C22_Witness ==
    /\ pc = "done"
    /\ ret.err = NoErr
    /\ AllSucceeded
    /\ net.subnets = << <<2>>, <<1, 2>> >>
    /\ Len(assigned) = 3
    /\ assigned[1] = <<1, 2>>
    /\ assigned[2] = <<2>>
    /\ assigned[3] = assigned[1]

----------------------------------------------------------------------------
(* C26 *)

\* a step on which getChainID returns / on which the existence check answers
AskReturns == ask.pc # "done" /\ ask'.pc = "done"
AskChecked == ask.pc = "exists" /\ ask'.pc # "exists"

\* C26: getChainID returns without error only with the chain ID entered last, and
\* the existence check of that ID answered false without error; an ID for which
\* the check answered true leads to a new prompt, however many prompts there have
\* been, and never to a return; an error of the prompt or of the existence check
\* ends the call with that error and no chain ID
C26_OnlyFreeChainIDs ==
    [][/\ (AskReturns /\ ask'.err = NoErr) =>
            /\ AskChecked
            /\ ask'.chainID \in ChainIDs
            /\ ask'.chainID = ask.entered
            /\ ask'.checked = BigIntString(ask'.chainID)
            /\ ~ask'.exists
            /\ ask'.cerr = NoErr
       /\ (AskChecked /\ ask'.exists /\ ask'.cerr = NoErr) =>
            /\ ask'.pc = "prompt"
            /\ ask'.err = NoErr
       /\ (ask.pc = "prompt" /\ ask'.perr # NoErr) =>
            /\ ask'.pc = "done"
            /\ ask'.err = ask'.perr
            /\ ask'.chainID = 0
       /\ (AskChecked /\ ask'.cerr # NoErr) =>
            /\ ask'.pc = "done"
            /\ ask'.err = ask'.cerr
            /\ ask'.chainID = 0
       /\ (AskReturns /\ ask'.err # NoErr) => ask'.chainID = 0]_vars

\* the call has returned 10 after the user was sent back to the prompt at least
\* twice for IDs that exist
C26_Witness ==
    /\ ask.pc = "done"
    /\ ask.err = NoErr
    /\ ask.chainID = 10
    /\ ask.checked = <<1, 0>>
    /\ ask.prompts >= 3

====
